---- MODULE Spec2Model ----
(***************************************************************************)
(* Model of the context-aware ranking engine of obsidian-smart-quick-       *)
(* switcher: RecentFilesTracker (LRU cache), link analysis (pure utils and  *)
(* LinkAnalyzer), path exclusion, property filters and SearchEngine.search. *)
(*                                                                         *)
(* Strings are sequences of one-character strings.  A TFile is identified   *)
(* by its document id; PathOf gives its path.  A JavaScript Set is an       *)
(* insertion-ordered sequence without duplicates.                           *)
(***************************************************************************)
EXTENDS Integers, Sequences, FiniteSets, TLC

VARIABLES
    recentFiles,   \* RecentFilesTracker.recentFiles: paths, newest first
    maxRecent,     \* RecentFilesTracker.maxRecent
    linkGraph,     \* metadata cache: document -> sequence of link targets
    activeFile,    \* workspace.getActiveFile(): a document or NoFile
    rule,          \* the active SearchRule
    ret            \* the last operation and what it returned

vars == <<recentFiles, maxRecent, linkGraph, activeFile, rule, ret>>

----------------------------------------------------------------------------
(* Bounds of the model *)

MaxCap == 2        \* largest capacity given to setMaxRecent
MaxWeight == 3     \* largest size of a state: links + recent files + settings changed

----------------------------------------------------------------------------
(* The vault *)

NoFile == "null"

Docs == {"d1", "d2", "d3", "d4"}

\* app.vault.getMarkdownFiles(), and the key order of the link graph
MarkdownFiles == <<"d1", "d2", "d3", "d4">>

PathOf(d) ==
    CASE d = "d1" -> <<"n", "/", "b", "a">>
      [] d = "d2" -> <<"a">>
      [] d = "d3" -> <<"t", "/", "c">>
      [] d = "d4" -> <<"t", "t", "/", "a">>

Basename(d) ==
    CASE d = "d1" -> <<"b", "a">>
      [] d = "d2" -> <<"a">>
      [] d = "d3" -> <<"c">>
      [] d = "d4" -> <<"a">>

Range(s) == {s[i] : i \in 1..Len(s)}

NoDup(s) == \A i, j \in 1..Len(s) : i # j => s[i] # s[j]

\* Array.prototype.filter with a predicate on the element
RECURSIVE FilterSeq(_, _)
FilterSeq(s, keep) ==
    IF s = <<>> THEN <<>>
    ELSE LET rest == FilterSeq(Tail(s), keep)
         IN  IF Head(s) \in keep THEN <<Head(s)>> \o rest ELSE rest

\* Array.prototype.filter(x => x !== item)
RECURSIVE Without(_, _)
Without(s, item) ==
    IF s = <<>> THEN <<>>
    ELSE IF Head(s) = item THEN Without(Tail(s), item)
         ELSE <<Head(s)>> \o Without(Tail(s), item)

\* Array.prototype.slice(0, n)
Slice0(s, n) == SubSeq(s, 1, IF n < Len(s) THEN n ELSE Len(s))

\* Set.prototype.add on an insertion-ordered set
SetAdd(s, x) == IF x \in Range(s) THEN s ELSE Append(s, x)

----------------------------------------------------------------------------
(* Strings *)

LowerChar(c) ==
    CASE c = "P" -> "p"
      [] c = "L" -> "l"
      [] c = "O" -> "o"
      [] OTHER -> c

ToLower(s) == [i \in 1..Len(s) |-> LowerChar(s[i])]

StartsWith(s, p) == Len(p) <= Len(s) /\ SubSeq(s, 1, Len(p)) = p

EndsWith(s, p) == Len(p) <= Len(s) /\ SubSeq(s, Len(s) - Len(p) + 1, Len(s)) = p

Includes(s, sub) ==
    \E i \in 0..(Len(s) - Len(sub)) : SubSeq(s, i + 1, i + Len(sub)) = sub

\* String.prototype.trim: the only whitespace of the model is " "
RECURSIVE TrimLeft(_)
TrimLeft(s) == IF s # <<>> /\ Head(s) = " " THEN TrimLeft(Tail(s)) ELSE s

RECURSIVE TrimRight(_)
TrimRight(s) ==
    IF s # <<>> /\ s[Len(s)] = " " THEN TrimRight(SubSeq(s, 1, Len(s) - 1)) ELSE s

Trim(s) == TrimRight(TrimLeft(s))

----------------------------------------------------------------------------
(* utils/pathFilterUtils.ts *)

\* isPathExcluded comparing with the folder as written, not normalized
isPathExcludedAsWritten(filePath, excludedFolders) ==
    IF Len(excludedFolders) = 0 THEN FALSE
    ELSE \E i \in 1..Len(excludedFolders) :
            StartsWith(filePath, excludedFolders[i])

isPathExcluded(filePath, excludedFolders) ==
    IF Len(excludedFolders) = 0 THEN FALSE
    ELSE \E i \in 1..Len(excludedFolders) :
            LET folder == excludedFolders[i]
                normalizedFolder ==
                    IF EndsWith(folder, <<"/">>) THEN folder ELSE folder \o <<"/">>
            IN  StartsWith(filePath, normalizedFolder)

filterByExcludedPaths(files, excludedFolders) ==
    IF Len(excludedFolders) = 0 THEN files
    ELSE FilterSeq(files, {d \in Range(files) :
                              ~isPathExcluded(PathOf(d), excludedFolders)})

----------------------------------------------------------------------------
(* RecentFilesTracker.ts *)

\* two slips of addRecentFile: a trim one entry late, and no removal
addRecentFileBadTrim(recent, cap, path) ==
    LET unshifted == <<path>> \o Without(recent, path)
    IN  IF Len(unshifted) > cap + 1 THEN Slice0(unshifted, cap) ELSE unshifted

addRecentFileNoRemove(recent, cap, path) ==
    LET unshifted == <<path>> \o recent
    IN  IF Len(unshifted) > cap THEN Slice0(unshifted, cap) ELSE unshifted

\* addRecentFile: the new value of this.recentFiles
addRecentFile(recent, cap, path) ==
    LET unshifted == <<path>> \o Without(recent, path)
    IN  IF Len(unshifted) > cap THEN Slice0(unshifted, cap) ELSE unshifted

\* setMaxRecent keeping the oldest entries instead of the newest
setMaxRecentKeepOldest(recent, newMax) ==
    IF Len(recent) > newMax
    THEN SubSeq(recent, Len(recent) - newMax + 1, Len(recent))
    ELSE recent

\* setMaxRecent: the new value of this.recentFiles
setMaxRecent(recent, newMax) ==
    IF Len(recent) > newMax THEN Slice0(recent, newMax) ELSE recent

getRecentFiles(recent) == recent

\* getRecentTFiles: the recent paths that still resolve to a file
getRecentTFiles(recent) == FilterSeq(recent, Docs)

----------------------------------------------------------------------------
(* utils/linkAnalysisUtils.ts: pure functions over a LinkGraph *)

\* for (const [sourcePath, outgoingLinks] of Object.entries(linkGraph))
RECURSIVE BacklinksLoop(_, _, _)
BacklinksLoop(graph, keys, targetPath) ==
    IF keys = <<>> THEN <<>>
    ELSE LET rest == BacklinksLoop(graph, Tail(keys), targetPath)
         IN  IF targetPath \in Range(graph[Head(keys)])
             THEN <<Head(keys)>> \o rest
             ELSE rest

\* a source pushed once for each of its links to the target
RECURSIVE BacklinksPerLink(_, _, _)
BacklinksPerLink(graph, keys, targetPath) ==
    IF keys = <<>> THEN <<>>
    ELSE FilterSeq([i \in 1..Len(graph[Head(keys)]) |->
                       IF graph[Head(keys)][i] = targetPath THEN Head(keys)
                       ELSE NoFile], Docs)
             \o BacklinksPerLink(graph, Tail(keys), targetPath)

getBacklinksFromGraphPerLink(graph, targetPath) ==
    BacklinksPerLink(graph, MarkdownFiles, targetPath)

getBacklinksFromGraph(graph, targetPath) ==
    BacklinksLoop(graph, MarkdownFiles, targetPath)

\* the inner loop of the two-hop functions: add every link not in skip
RECURSIVE AddLinks(_, _, _)
AddLinks(acc, links, skip) ==
    IF links = <<>> THEN acc
    ELSE AddLinks(IF Head(links) \in skip THEN acc ELSE SetAdd(acc, Head(links)),
                  Tail(links), skip)

RECURSIVE TwoHopLoop(_, _, _, _, _)
TwoHopLoop(acc, graph, backlinks, targetPath, backlinkSet) ==
    IF backlinks = <<>> THEN acc
    ELSE LET backlinkPath == Head(backlinks)
             outgoingLinks == graph[backlinkPath]
         IN  TwoHopLoop(
                 AddLinks(acc, outgoingLinks,
                          {targetPath, backlinkPath} \cup backlinkSet),
                 graph, Tail(backlinks), targetPath, backlinkSet)

getTwoHopLinksFromGraph(graph, targetPath) ==
    LET backlinks == getBacklinksFromGraph(graph, targetPath)
        backlinkSet == Range(backlinks)
    IN  TwoHopLoop(<<>>, graph, backlinks, targetPath, backlinkSet)

----------------------------------------------------------------------------
(* LinkAnalyzer.ts: the same analysis over the metadata cache.  The cache's *)
(* links of a file and its resolvedLinks entry are two views of linkGraph.  *)

\* getOutgoingLinks: every link of the file that resolves to a file
getOutgoingLinks(graph, file) == FilterSeq(graph[file], Docs)

\* metadataCache.resolvedLinks[sourcePath]: the resolved targets of a source
ResolvedLinks(graph, sourcePath) == Range(graph[sourcePath]) \cap Docs

\* for (const [sourcePath, links] of Object.entries(resolvedLinks))
RECURSIVE ResolvedSources(_, _, _)
ResolvedSources(graph, sources, file) ==
    IF sources = <<>> THEN <<>>
    ELSE LET rest == ResolvedSources(graph, Tail(sources), file)
         IN  IF file \in ResolvedLinks(graph, Head(sources))
                /\ Head(sources) \in Docs
             THEN <<Head(sources)>> \o rest
             ELSE rest

getBacklinks(graph, file) == ResolvedSources(graph, MarkdownFiles, file)

RECURSIVE AnalyzerTwoHopLoop(_, _, _, _)
AnalyzerTwoHopLoop(acc, graph, backlinks, file) ==
    IF backlinks = <<>> THEN acc
    ELSE LET backlinkFile == Head(backlinks)
         IN  AnalyzerTwoHopLoop(
                 AddLinks(acc, getOutgoingLinks(graph, backlinkFile),
                          {file, backlinkFile}),
                 graph, Tail(backlinks), file)

getTwoHopLinks(graph, file) ==
    FilterSeq(AnalyzerTwoHopLoop(<<>>, graph, getBacklinks(graph, file), file), Docs)

\* for (const f of files) set.add(f.path)
RECURSIVE AddPaths(_, _)
AddPaths(acc, files) ==
    IF files = <<>> THEN acc ELSE AddPaths(SetAdd(acc, Head(files)), Tail(files))

\* patterns A and B: the outgoing links of each file of hops
RECURSIVE ViaOutgoing(_, _, _, _)
ViaOutgoing(acc, graph, hops, skip) ==
    IF hops = <<>> THEN acc
    ELSE ViaOutgoing(AddLinks(acc, getOutgoingLinks(graph, Head(hops)), skip),
                     graph, Tail(hops), skip)

\* pattern C left out
ViaBacklinksNone(acc, graph, hops, skip) == acc

\* pattern C: the backlinks of each file of hops
RECURSIVE ViaBacklinks(_, _, _, _)
ViaBacklinks(acc, graph, hops, skip) ==
    IF hops = <<>> THEN acc
    ELSE ViaBacklinks(AddLinks(acc, getBacklinks(graph, Head(hops)), skip),
                      graph, Tail(hops), skip)

\* the three patterns skipping the file and its outgoing links, not its backlinks
getCategorizedLinksSkipOutgoing(graph, file) ==
    LET outgoingFiles == getOutgoingLinks(graph, file)
        outgoing == AddPaths(<<>>, outgoingFiles)
        backlinkFiles == getBacklinks(graph, file)
        backlinks == AddPaths(<<>>, backlinkFiles)
        skip == {file} \cup Range(outgoing)
        patternA == ViaOutgoing(<<>>, graph, outgoingFiles, skip)
        patternB == ViaOutgoing(patternA, graph, backlinkFiles, skip)
        patternC == ViaBacklinks(patternB, graph, outgoingFiles, skip)
    IN  [outgoing |-> outgoing, backlinks |-> backlinks, twoHop |-> patternC]

getCategorizedLinks(graph, file) ==
    LET outgoingFiles == getOutgoingLinks(graph, file)
        outgoing == AddPaths(<<>>, outgoingFiles)
        backlinkFiles == getBacklinks(graph, file)
        backlinks == AddPaths(<<>>, backlinkFiles)
        skip == {file} \cup Range(outgoing) \cup Range(backlinks)
        patternA == ViaOutgoing(<<>>, graph, outgoingFiles, skip)
        patternB == ViaOutgoing(patternA, graph, backlinkFiles, skip)
        patternC == ViaBacklinks(patternB, graph, outgoingFiles, skip)
    IN  [outgoing |-> outgoing, backlinks |-> backlinks, twoHop |-> patternC]

----------------------------------------------------------------------------
(* The metadata cache: frontmatter and tags of each document *)

NoFrontmatter == [kind |-> "none"]

Undefined == [kind |-> "undefined"]

Scalar(str) == [kind |-> "scalar", str |-> str]

Array(items) == [kind |-> "array", items |-> items]

KeyAccess == <<"k">>

ValuePublic == <<"P", "u">>

ValueLocal == <<"l", "o">>

\* getFileCache(file)?.frontmatter
Frontmatter(d) ==
    CASE d = "d1" -> [kind |-> "map", keys |-> <<KeyAccess>>,
                      values |-> <<Scalar(ValuePublic)>>]
      [] d = "d2" -> [kind |-> "map", keys |-> <<KeyAccess>>,
                      values |-> <<Scalar(ValueLocal)>>]
      [] d = "d3" -> [kind |-> "map", keys |-> <<KeyAccess>>,
                      values |-> <<Array(<<Scalar(ValueLocal),
                                           Scalar(ToLower(ValuePublic))>>)>>]
      [] d = "d4" -> NoFrontmatter

\* getFileCache(file)?.tags?.map(t => t.tag)
TagsOf(d) ==
    CASE d = "d1" -> << <<"#", "c">> >>
      [] d = "d4" -> << <<"#", "a">> >>
      [] OTHER -> <<>>

Null == [kind |-> "null"]

\* a key the frontmatter object inherits from Object.prototype
KeyConstructor == <<"c", "o", "n", "s", "t", "r", "u", "c", "t", "o", "r">>

\* Object.prototype.constructor, and what String() makes of it
ObjectConstructor ==
    [kind |-> "function",
     str |-> <<"f", "u", "n", "c", "t", "i", "o", "n", " ", "O", "b", "j", "e", "c", "t",
               "(", ")", " ", "{", " ", "[", "n", "a", "t", "i", "v", "e", " ",
               "c", "o", "d", "e", "]", " ", "}">>]

\* frontmatter[propertyKey]: an own key, else what the prototype holds
Lookup(frontmatter, key) ==
    IF \E i \in 1..Len(frontmatter.keys) : frontmatter.keys[i] = key
    THEN frontmatter.values[CHOOSE i \in 1..Len(frontmatter.keys) :
                                frontmatter.keys[i] = key]
    ELSE IF key = KeyConstructor THEN ObjectConstructor
    ELSE Undefined

----------------------------------------------------------------------------
(* utils/propertyFilterUtils.ts and PropertyFilterEngine.ts *)

\* compareValues looking at the first element of an array only
compareValuesFirstOnly(propertyValue, filterValue, exactMatch) ==
    IF propertyValue.kind \in {"undefined", "null"} THEN FALSE
    ELSE LET first == IF propertyValue.kind = "array"
                      THEN IF Len(propertyValue.items) = 0 THEN Undefined
                           ELSE propertyValue.items[1]
                      ELSE propertyValue
         IN  IF first.kind \in {"undefined", "null"} THEN FALSE
             ELSE IF exactMatch THEN ToLower(first.str) = ToLower(filterValue)
             ELSE Includes(ToLower(first.str), ToLower(filterValue))

RECURSIVE compareValues(_, _, _)
compareValues(propertyValue, filterValue, exactMatch) ==
    IF propertyValue.kind \in {"undefined", "null"} THEN FALSE
    ELSE IF propertyValue.kind = "array"
    THEN \E i \in 1..Len(propertyValue.items) :
            compareValues(propertyValue.items[i], filterValue, exactMatch)
    ELSE LET propStr == ToLower(propertyValue.str)
             filterStr == ToLower(filterValue)
         IN  IF exactMatch THEN propStr = filterStr
             ELSE Includes(propStr, filterStr)

\* containsValue finding nothing in an empty string
containsValueNonEmpty(propertyValue, filterValue) ==
    IF propertyValue.kind \in {"undefined", "null"} THEN FALSE
    ELSE IF propertyValue.kind = "array"
    THEN \E i \in 1..Len(propertyValue.items) :
            /\ propertyValue.items[i].str # <<>>
            /\ Includes(ToLower(propertyValue.items[i].str), ToLower(filterValue))
    ELSE /\ propertyValue.str # <<>>
         /\ Includes(ToLower(propertyValue.str), ToLower(filterValue))

RECURSIVE containsValue(_, _)
containsValue(propertyValue, filterValue) ==
    IF propertyValue.kind \in {"undefined", "null"} THEN FALSE
    ELSE IF propertyValue.kind = "array"
    THEN \E i \in 1..Len(propertyValue.items) :
            containsValue(propertyValue.items[i], filterValue)
    ELSE Includes(ToLower(propertyValue.str), ToLower(filterValue))

passesPropertyFilter(frontmatter, filter) ==
    IF frontmatter.kind = "none" THEN filter.operator = "not-exists"
    ELSE LET propertyValue == Lookup(frontmatter, filter.propertyKey)
         IN  CASE filter.operator = "exists" -> propertyValue # Undefined
               [] filter.operator = "not-exists" -> propertyValue = Undefined
               [] filter.operator = "equals" ->
                      compareValues(propertyValue, filter.value, TRUE)
               [] filter.operator = "not-equals" ->
                      IF propertyValue = Undefined THEN FALSE
                      ELSE ~compareValues(propertyValue, filter.value, TRUE)
               [] filter.operator = "contains" ->
                      containsValue(propertyValue, filter.value)
               [] OTHER -> FALSE

\* passesAllPropertyFilters stopping after the first filter
passesAllPropertyFiltersFirstOnly(frontmatter, filters) ==
    IF Len(filters) = 0 THEN TRUE
    ELSE passesPropertyFilter(frontmatter, filters[1])

passesAllPropertyFilters(frontmatter, filters) ==
    IF Len(filters) = 0 THEN TRUE
    ELSE \A i \in 1..Len(filters) : passesPropertyFilter(frontmatter, filters[i])

\* PropertyFilterEngine.passesFilters
passesFilters(file, filters) ==
    passesAllPropertyFilters(Frontmatter(file), filters)

\* filterFiles letting every file through
filterFilesKeepAll(files, filters) == files

\* PropertyFilterEngine.filterFiles
filterFiles(files, filters) ==
    IF Len(filters) = 0 THEN files
    ELSE FilterSeq(files, {d \in Range(files) : passesFilters(d, filters)})

----------------------------------------------------------------------------
(* SearchEngine.ts *)

PriorityOther == 999

PriorityNonFiltered == 1000

PriorityFiltered == 500

\* prepareFuzzySearch(query)(text): the text-match scorer of the host
\* application, 0 for null.  Stand-in: case-insensitive, an exact match
\* scores higher than a partial one.
FuzzyScore(query, text) ==
    IF ToLower(text) = ToLower(query) THEN 2
    ELSE IF Includes(ToLower(text), ToLower(query)) THEN 1
    ELSE 0

\* String(value) of a frontmatter value
RECURSIVE StringOf(_)
StringOf(value) ==
    CASE value.kind = "scalar" -> value.str
      [] value.kind = "null" -> <<"n", "u", "l", "l">>
      [] value.kind = "array" ->
             IF value.items = <<>> THEN <<>>
             ELSE IF Len(value.items) = 1 THEN StringOf(value.items[1])
             ELSE StringOf(value.items[1]) \o <<",">>
                      \o StringOf(Array(Tail(value.items)))

RECURSIVE SumTagScores(_, _)
SumTagScores(query, tags) ==
    IF tags = <<>> THEN 0
    ELSE 5 * FuzzyScore(query, Head(tags)) + SumTagScores(query, Tail(tags))

RECURSIVE SumPropScores(_, _, _)
SumPropScores(query, keys, values) ==
    IF keys = <<>> THEN 0
    ELSE 3 * FuzzyScore(query, Head(keys) \o <<":">> \o StringOf(Head(values)))
             + SumPropScores(query, Tail(keys), Tail(values))

\* the score searchByQuery accumulates for one file, in tenths
ScoreOf(file, query, r) ==
    10 * FuzzyScore(query, Basename(file))
    + (IF r.searchInTags THEN SumTagScores(query, TagsOf(file)) ELSE 0)
    + (IF r.searchInProperties /\ Frontmatter(file).kind = "map"
       THEN SumPropScores(query, Frontmatter(file).keys, Frontmatter(file).values)
       ELSE 0)

\* results.sort((a, b) => b.score - a.score): stable insertion
RECURSIVE InsertByScore(_, _, _, _)
InsertByScore(sorted, file, query, r) ==
    IF sorted = <<>> THEN <<file>>
    ELSE IF ScoreOf(file, query, r) - ScoreOf(Head(sorted), query, r) <= 0
         THEN <<Head(sorted)>> \o InsertByScore(Tail(sorted), file, query, r)
         ELSE <<file>> \o sorted

RECURSIVE SortByScore(_, _, _, _)
SortByScore(acc, files, query, r) ==
    IF files = <<>> THEN acc
    ELSE SortByScore(InsertByScore(acc, Head(files), query, r),
                     Tail(files), query, r)

\* the matches in vault order, the sort by score left out
searchByQueryUnsorted(files, query, r) ==
    FilterSeq(files, {d \in Range(files) : ScoreOf(d, query, r) > 0})

searchByQuery(files, query, r) ==
    SortByScore(<<>>,
                FilterSeq(files, {d \in Range(files) : ScoreOf(d, query, r) > 0}),
                query, r)

\* String.prototype.localeCompare on the letters of the model
CharRank(c) ==
    CASE c = "a" -> 1
      [] c = "b" -> 2
      [] c = "c" -> 3
      [] OTHER -> 4

RECURSIVE localeCompare(_, _)
localeCompare(x, y) ==
    IF x = <<>> /\ y = <<>> THEN 0
    ELSE IF x = <<>> THEN -1
    ELSE IF y = <<>> THEN 1
    ELSE IF CharRank(Head(x)) < CharRank(Head(y)) THEN -1
    ELSE IF CharRank(Head(x)) > CharRank(Head(y)) THEN 1
    ELSE localeCompare(Tail(x), Tail(y))

\* the comparator of getGroupedResults
CompareResults(a, b) ==
    IF a.priority # b.priority THEN a.priority - b.priority
    ELSE localeCompare(Basename(a.file), Basename(b.file))

RECURSIVE InsertResult(_, _)
InsertResult(sorted, x) ==
    IF sorted = <<>> THEN <<x>>
    ELSE IF CompareResults(Head(sorted), x) <= 0
         THEN <<Head(sorted)>> \o InsertResult(Tail(sorted), x)
         ELSE <<x>> \o sorted

RECURSIVE SortResults(_, _)
SortResults(acc, results) ==
    IF results = <<>> THEN acc
    ELSE SortResults(InsertResult(acc, Head(results)), Tail(results))

SearchResult(file, group, priority) ==
    [file |-> file, group |-> group, priority |-> priority]

\* the categorization with the backlink test ahead of the outgoing test
CategorizeBacklinkFirst(file, r, recentSet, links) ==
    LET inRecent == file \in recentSet
        inOutgoing == file \in Range(links.outgoing)
        inBacklinks == file \in Range(links.backlinks)
        inTwoHop == file \in Range(links.twoHop)
    IN  IF r.recentFiles.enabled /\ inRecent
        THEN SearchResult(file, "recent", r.recentFiles.priority)
        ELSE IF r.backlinks.enabled /\ inBacklinks
        THEN SearchResult(file, "backlink", r.backlinks.priority)
        ELSE IF r.outgoingLinks.enabled /\ inOutgoing
        THEN SearchResult(file, "outgoing", r.outgoingLinks.priority)
        ELSE IF r.twoHopLinks.enabled /\ inTwoHop
        THEN SearchResult(file, "two-hop", r.twoHopLinks.priority)
        ELSE SearchResult(file, "other", PriorityOther)

\* the categorization of one file in getGroupedResults
Categorize(file, r, recentSet, links) ==
    LET inRecent == file \in recentSet
        inOutgoing == file \in Range(links.outgoing)
        inBacklinks == file \in Range(links.backlinks)
        inTwoHop == file \in Range(links.twoHop)
    IN  IF r.recentFiles.enabled /\ inRecent
        THEN SearchResult(file, "recent", r.recentFiles.priority)
        ELSE IF r.outgoingLinks.enabled /\ inOutgoing
        THEN SearchResult(file, "outgoing", r.outgoingLinks.priority)
        ELSE IF r.backlinks.enabled /\ inBacklinks
        THEN SearchResult(file, "backlink", r.backlinks.priority)
        ELSE IF r.twoHopLinks.enabled /\ inTwoHop
        THEN SearchResult(file, "two-hop", r.twoHopLinks.priority)
        ELSE SearchResult(file, "other", PriorityOther)

\* getGroupedResults categorizing by the recency cache when no file is open
getGroupedResultsNoOtherBranch(files, r, currentFile, recent, graph) ==
    LET filesWithoutCurrent == Without(files, currentFile)
        recentSet == Range(getRecentFiles(recent))
        links == IF currentFile = NoFile
                 THEN [outgoing |-> <<>>, backlinks |-> <<>>, twoHop |-> <<>>]
                 ELSE getCategorizedLinks(graph, currentFile)
        results == [i \in 1..Len(filesWithoutCurrent) |->
                       Categorize(filesWithoutCurrent[i], r, recentSet, links)]
    IN  SortResults(<<>>, results)

getGroupedResults(files, r, currentFile, recent, graph) ==
    IF currentFile = NoFile
    THEN [i \in 1..Len(files) |-> SearchResult(files[i], "other", PriorityOther)]
    ELSE LET filesWithoutCurrent == Without(files, currentFile)
             recentSet == Range(getRecentFiles(recent))
             links == getCategorizedLinks(graph, currentFile)
             results == [i \in 1..Len(filesWithoutCurrent) |->
                            Categorize(filesWithoutCurrent[i], r, recentSet, links)]
         IN  SortResults(<<>>, results)

\* the related files with the property filters applied whatever the rule says
getRelatedFilesAlwaysFiltered(candidateFiles, r, currentFile, recent, graph) ==
    LET links == getCategorizedLinks(graph, currentFile)
        recentSet == Range(getRecentFiles(recent))
        relatedPaths == recentSet \cup Range(links.outgoing)
                            \cup Range(links.backlinks) \cup Range(links.twoHop)
        relatedFiles == FilterSeq(candidateFiles, relatedPaths)
        filtered == FilterSeq(relatedFiles,
                              {d \in Range(relatedFiles) :
                                  passesFilters(d, r.propertyFilters)})
    IN  getGroupedResults(filtered, r, currentFile, recent, graph)

\* the related files filtered when extendSearchResult is off, whatever
\* filterRelatedFiles says
getRelatedFilesByExtend(candidateFiles, r, currentFile, recent, graph) ==
    LET links == getCategorizedLinks(graph, currentFile)
        recentSet == Range(getRecentFiles(recent))
        relatedPaths == recentSet \cup Range(links.outgoing)
                            \cup Range(links.backlinks) \cup Range(links.twoHop)
        relatedFiles == FilterSeq(candidateFiles, relatedPaths)
        filtered ==
            IF ~r.extendSearchResult
            THEN FilterSeq(relatedFiles,
                           {d \in Range(relatedFiles) :
                               passesFilters(d, r.propertyFilters)})
            ELSE relatedFiles
    IN  getGroupedResults(filtered, r, currentFile, recent, graph)

getRelatedFilesWithFilterPriority(candidateFiles, r, currentFile, recent, graph) ==
    LET links == getCategorizedLinks(graph, currentFile)
        recentSet == Range(getRecentFiles(recent))
        relatedPaths == recentSet \cup Range(links.outgoing)
                            \cup Range(links.backlinks) \cup Range(links.twoHop)
        relatedFiles == FilterSeq(candidateFiles, relatedPaths)
        filtered ==
            IF r.filterRelatedFiles
            THEN FilterSeq(relatedFiles,
                           {d \in Range(relatedFiles) :
                               passesFilters(d, r.propertyFilters)})
            ELSE relatedFiles
    IN  getGroupedResults(filtered, r, currentFile, recent, graph)

\* every file tagged as the catch-all group of the fallbackToAll version
TagAllOther(files, group, priority) ==
    [i \in 1..Len(files) |-> SearchResult(files[i], "other", PriorityOther)]

TagAll(files, group, priority) ==
    [i \in 1..Len(files) |-> SearchResult(files[i], group, priority)]

\* the filtered files searched again with the linked matches still among them
searchWithLinkPriorityKeepMatched(query, r, currentFile, candidateFiles, recent, graph) ==
    LET links == getCategorizedLinks(graph, currentFile)
        recentSet == Range(getRecentFiles(recent))
        linkedPaths == Range(links.outgoing) \cup Range(links.backlinks)
                           \cup Range(links.twoHop)
        linkedFiles == FilterSeq(candidateFiles, linkedPaths \cup recentSet)
        linkedMatches == searchByQuery(linkedFiles, query, r)
        linkedResults == getGroupedResults(linkedMatches, r, currentFile, recent, graph)
        matchedPaths == Range(linkedMatches)
        filteredFiles == filterFiles(candidateFiles, r.propertyFilters)
        remainingFiltered == filteredFiles
        filteredMatches == searchByQuery(remainingFiltered, query, r)
        filteredResults == TagAll(filteredMatches, "other", PriorityFiltered)
        results == linkedResults \o filteredResults
        allMatchedPaths == matchedPaths \cup Range(filteredMatches)
        filteredPaths == Range(filteredFiles)
        nonFilteredFiles ==
            FilterSeq(candidateFiles, Docs \ (allMatchedPaths \cup filteredPaths))
        nonFilteredMatches == searchByQuery(nonFilteredFiles, query, r)
        nonFilteredResults ==
            TagAll(nonFilteredMatches, "non-filtered", PriorityNonFiltered)
    IN  IF r.extendSearchResult THEN results \o nonFilteredResults ELSE results

searchWithLinkPriority(query, r, currentFile, candidateFiles, recent, graph) ==
    LET links == getCategorizedLinks(graph, currentFile)
        recentSet == Range(getRecentFiles(recent))
        linkedPaths == Range(links.outgoing) \cup Range(links.backlinks)
                           \cup Range(links.twoHop)
        linkedFiles == FilterSeq(candidateFiles, linkedPaths \cup recentSet)
        linkedMatches == searchByQuery(linkedFiles, query, r)
        linkedResults == getGroupedResults(linkedMatches, r, currentFile, recent, graph)
        matchedPaths == Range(linkedMatches)
        filteredFiles == filterFiles(candidateFiles, r.propertyFilters)
        remainingFiltered == FilterSeq(filteredFiles, Docs \ matchedPaths)
        filteredMatches == searchByQuery(remainingFiltered, query, r)
        filteredResults == TagAll(filteredMatches, "other", PriorityFiltered)
        results == linkedResults \o filteredResults
        allMatchedPaths == matchedPaths \cup Range(filteredMatches)
        filteredPaths == Range(filteredFiles)
        nonFilteredFiles ==
            FilterSeq(candidateFiles, Docs \ (allMatchedPaths \cup filteredPaths))
        nonFilteredMatches == searchByQuery(nonFilteredFiles, query, r)
        nonFilteredResults ==
            TagAll(nonFilteredMatches, "non-filtered", PriorityNonFiltered)
    IN  IF r.extendSearchResult THEN results \o nonFilteredResults ELSE results

\* every recent file pushed, whether or not the filtered set holds it
AddRecentUnchecked(filteredFiles, recent) ==
    filteredFiles \o getRecentTFiles(recent)

\* the recent files added to the filtered set when they ignore the filters
AddRecentIgnoringFilters(filteredFiles, recent) ==
    filteredFiles \o FilterSeq(getRecentTFiles(recent), Docs \ Range(filteredFiles))

IsEmptyQuery(query) == Len(query) = 0 \/ Len(Trim(query)) = 0

search(query, r, currentFile, recent, graph) ==
    LET allFiles == MarkdownFiles
        candidateFiles == filterByExcludedPaths(allFiles, r.excludedPaths)
        currentFileOutsideFilters ==
            /\ currentFile # NoFile
            /\ \/ isPathExcluded(PathOf(currentFile), r.excludedPaths)
               \/ ~passesFilters(currentFile, r.propertyFilters)
        filteredFiles == filterFiles(candidateFiles, r.propertyFilters)
    IN  IF IsEmptyQuery(query)
        THEN IF currentFileOutsideFilters
             THEN getRelatedFilesWithFilterPriority(candidateFiles, r, currentFile,
                                                    recent, graph)
             ELSE getGroupedResults(
                      IF r.recentFiles.enabled /\ r.recentFiles.ignoreFilters
                      THEN AddRecentIgnoringFilters(filteredFiles, recent)
                      ELSE filteredFiles,
                      r, currentFile, recent, graph)
        ELSE IF currentFileOutsideFilters
        THEN searchWithLinkPriority(query, r, currentFile, candidateFiles,
                                    recent, graph)
        ELSE LET matchedFiles == searchByQuery(filteredFiles, query, r)
                 results == getGroupedResults(matchedFiles, r, currentFile,
                                              recent, graph)
                 nonFilteredFiles ==
                     FilterSeq(candidateFiles, Docs \ Range(filteredFiles))
                 nonFilteredMatches == searchByQuery(nonFilteredFiles, query, r)
                 nonFilteredResults ==
                     TagAll(nonFilteredMatches, "non-filtered", PriorityNonFiltered)
             IN  IF r.extendSearchResult THEN results \o nonFilteredResults
                 ELSE results

----------------------------------------------------------------------------
(* types.ts: the settings *)

DefaultMaxRecent == 4

Groups == <<"recentFiles", "outgoingLinks", "backlinks", "twoHopLinks">>

\* createDefaultRule()
DefaultRule ==
    [excludedPaths |-> <<>>,
     propertyFilters |-> <<>>,
     searchInTags |-> TRUE,
     searchInProperties |-> FALSE,
     recentFiles |-> [enabled |-> TRUE, priority |-> 1, ignoreFilters |-> TRUE],
     outgoingLinks |-> [enabled |-> TRUE, priority |-> 2],
     backlinks |-> [enabled |-> TRUE, priority |-> 3],
     twoHopLinks |-> [enabled |-> TRUE, priority |-> 4],
     extendSearchResult |-> TRUE,
     filterRelatedFiles |-> FALSE]

\* the folders and the property filters the user may enter
FolderChoices == { <<"t">> }

FilterChoices ==
    { [propertyKey |-> KeyAccess, operator |-> "equals", value |-> ToLower(ValuePublic)],
      [propertyKey |-> KeyAccess, operator |-> "not-exists", value |-> <<>>] }

\* the queries the user may type
Queries == { <<>>, <<" ">>, <<"a">>, <<"c">> }

----------------------------------------------------------------------------
(* The size of a state, which bounds the model *)

TotalLinks(graph) ==
    Len(graph["d1"]) + Len(graph["d2"]) + Len(graph["d3"]) + Len(graph["d4"])

Differs(x, y) == IF x = y THEN 0 ELSE 1

MovedPriorities(r) ==
    Differs(r.recentFiles.priority, DefaultRule.recentFiles.priority)
    + Differs(r.outgoingLinks.priority, DefaultRule.outgoingLinks.priority)
    + Differs(r.backlinks.priority, DefaultRule.backlinks.priority)
    + Differs(r.twoHopLinks.priority, DefaultRule.twoHopLinks.priority)

RuleChanges(r) ==
    Len(r.excludedPaths) + Len(r.propertyFilters)
    + Differs(r.searchInTags, DefaultRule.searchInTags)
    + Differs(r.searchInProperties, DefaultRule.searchInProperties)
    + Differs(r.recentFiles.enabled, DefaultRule.recentFiles.enabled)
    + Differs(r.recentFiles.ignoreFilters, DefaultRule.recentFiles.ignoreFilters)
    + Differs(r.outgoingLinks.enabled, DefaultRule.outgoingLinks.enabled)
    + Differs(r.backlinks.enabled, DefaultRule.backlinks.enabled)
    + Differs(r.twoHopLinks.enabled, DefaultRule.twoHopLinks.enabled)
    + Differs(r.extendSearchResult, DefaultRule.extendSearchResult)
    + Differs(r.filterRelatedFiles, DefaultRule.filterRelatedFiles)
    + (MovedPriorities(r) + 1) \div 2

Weight ==
    TotalLinks(linkGraph) + Len(recentFiles) + RuleChanges(rule)
    + Differs(maxRecent, DefaultMaxRecent)

WithinBounds == Weight <= MaxWeight

----------------------------------------------------------------------------
(* The state machine *)

NoReturn == [op |-> "none"]

\* calls are synchronous: no event is handled while a call has yet to return
Idle == ret = NoReturn

Init ==
    /\ recentFiles = <<>>
    /\ maxRecent = DefaultMaxRecent
    /\ linkGraph = [d \in Docs |-> <<>>]
    /\ activeFile \in Docs \cup {NoFile}
    /\ rule = DefaultRule
    /\ ret = NoReturn

\* the 'file-open' event of the workspace: registerEvents -> addRecentFile
FileOpen(file) ==
    /\ Idle
    /\ activeFile' = file
    /\ recentFiles' = IF file # NoFile
                      THEN addRecentFile(recentFiles, maxRecent, file)
                      ELSE recentFiles
    /\ UNCHANGED <<maxRecent, linkGraph, rule>>
    /\ ret' = NoReturn
    /\ WithinBounds'

\* saveSettings -> RecentFilesTracker.setMaxRecent, with the maxRecentFiles
\* of the settings data
SetMaxRecent(newMax) ==
    /\ Idle
    /\ maxRecent' = newMax
    /\ recentFiles' = setMaxRecent(recentFiles, newMax)
    /\ UNCHANGED <<linkGraph, activeFile, rule>>
    /\ ret' = NoReturn
    /\ WithinBounds'

\* RecentFilesTracker.clear
Clear ==
    /\ Idle
    /\ recentFiles' = <<>>
    /\ UNCHANGED <<maxRecent, linkGraph, activeFile, rule>>
    /\ ret' = NoReturn

\* a link is written into a document: the metadata cache follows
LinkAdded(source, target) ==
    /\ Idle
    /\ linkGraph' = [linkGraph EXCEPT ![source] = Append(@, target)]
    /\ UNCHANGED <<recentFiles, maxRecent, activeFile, rule>>
    /\ ret' = NoReturn
    /\ WithinBounds'

\* the settings tab edits the active rule
EditRule(newRule) ==
    /\ Idle
    /\ rule' = newRule
    /\ UNCHANGED <<recentFiles, maxRecent, linkGraph, activeFile>>
    /\ ret' = NoReturn
    /\ WithinBounds'

AddExcludedPath(folder) ==
    EditRule([rule EXCEPT !.excludedPaths = Append(@, folder)])

AddPropertyFilter(filter) ==
    EditRule([rule EXCEPT !.propertyFilters = Append(@, filter)])

ToggleGroup(g) ==
    EditRule([rule EXCEPT ![g].enabled = ~@])

ToggleIgnoreFilters ==
    EditRule([rule EXCEPT !.recentFiles.ignoreFilters = ~@])

ToggleExtendSearchResult ==
    EditRule([rule EXCEPT !.extendSearchResult = ~@])

ToggleFilterRelatedFiles ==
    EditRule([rule EXCEPT !.filterRelatedFiles = ~@])

ToggleSearchInTags ==
    EditRule([rule EXCEPT !.searchInTags = ~@])

ToggleSearchInProperties ==
    EditRule([rule EXCEPT !.searchInProperties = ~@])

\* swapGroupPriorities: exchange the priorities of two groups
SwapGroupPriorities(g1, g2) ==
    /\ g1 # g2
    /\ EditRule([rule EXCEPT ![g1].priority = rule[g2].priority,
                             ![g2].priority = rule[g1].priority])

\* SearchEngine.search(query, activeRule, getActiveFile())
Search(query) ==
    /\ Idle
    /\ ret' = [op |-> "search", query |-> query,
               results |-> search(query, rule, activeFile, recentFiles, linkGraph)]
    /\ UNCHANGED <<recentFiles, maxRecent, linkGraph, activeFile, rule>>

\* the link analysis of one document, by the pure functions and by LinkAnalyzer
Analyze(target) ==
    /\ Idle
    /\ ret' = [op |-> "links", target |-> target,
               backlinksFromGraph |-> getBacklinksFromGraph(linkGraph, target),
               twoHopFromGraph |-> getTwoHopLinksFromGraph(linkGraph, target),
               backlinks |-> getBacklinks(linkGraph, target),
               twoHop |-> getTwoHopLinks(linkGraph, target),
               categorized |-> getCategorizedLinks(linkGraph, target)]
    /\ UNCHANGED <<recentFiles, maxRecent, linkGraph, activeFile, rule>>

\* the caller takes the returned value
Return ==
    /\ ~Idle
    /\ ret' = NoReturn
    /\ UNCHANGED <<recentFiles, maxRecent, linkGraph, activeFile, rule>>

Next ==
    \/ \E file \in Docs \cup {NoFile} : FileOpen(file)
    \/ \E newMax \in 0..MaxCap : SetMaxRecent(newMax)
    \/ Clear
    \/ \E source \in Docs, target \in Docs : LinkAdded(source, target)
    \/ \E folder \in FolderChoices : AddExcludedPath(folder)
    \/ \E filter \in FilterChoices : AddPropertyFilter(filter)
    \/ \E i \in 1..Len(Groups) : ToggleGroup(Groups[i])
    \/ ToggleIgnoreFilters
    \/ ToggleExtendSearchResult
    \/ ToggleFilterRelatedFiles
    \/ ToggleSearchInTags
    \/ ToggleSearchInProperties
    \/ \E i \in 1..Len(Groups), j \in 1..Len(Groups) :
           SwapGroupPriorities(Groups[i], Groups[j])
    \/ \E query \in Queries : Search(query)
    \/ \E target \in Docs : Analyze(target)
    \/ Return

Spec == Init /\ [][Next]_vars

----------------------------------------------------------------------------
(* SearchEngine.search on its own: every rule, recency cache, link graph    *)
(* and current document of the sets below                                   *)

MaxRecentLen == 2  \* longest recency cache of an initial state

MaxLinks == 1      \* most links of the link graph of an initial state

\* the caches addRecentFile can build: no path twice
RecentLists ==
    {recent \in UNION {[1..n -> Docs] : n \in 0..MaxRecentLen} : NoDup(recent)}

\* the link graphs of at most n links
RECURSIVE GraphsWith(_)
GraphsWith(n) ==
    IF n = 0 THEN {[d \in Docs |-> <<>>]}
    ELSE GraphsWith(n - 1)
            \cup {[graph EXCEPT ![source] = Append(@, target)] :
                      graph \in GraphsWith(n - 1), source \in Docs, target \in Docs}

\* the rules the settings tab can build from the default rule without
\* touching the groups
Rules ==
    {[DefaultRule EXCEPT !.excludedPaths = excludedPaths,
                         !.propertyFilters = propertyFilters,
                         !.extendSearchResult = extendSearchResult,
                         !.filterRelatedFiles = filterRelatedFiles,
                         !.recentFiles.ignoreFilters = ignoreFilters] :
        excludedPaths \in {<<>>} \cup {<<folder>> : folder \in FolderChoices},
        propertyFilters \in {<<>>} \cup {<<filter>> : filter \in FilterChoices},
        extendSearchResult \in BOOLEAN,
        filterRelatedFiles \in BOOLEAN,
        ignoreFilters \in BOOLEAN}

\* the file-open event puts the current document at the front of the cache
SearchInit ==
    /\ maxRecent = DefaultMaxRecent
    /\ activeFile \in Docs \cup {NoFile}
    /\ recentFiles \in RecentLists
    /\ (recentFiles # <<>> /\ activeFile # NoFile) => recentFiles[1] = activeFile
    /\ linkGraph \in GraphsWith(MaxLinks)
    /\ rule \in Rules
    /\ ret = NoReturn

SearchNext ==
    \/ \E query \in Queries : Search(query)
    \/ Return

SearchSpec == SearchInit /\ [][SearchNext]_vars

----------------------------------------------------------------------------
(* The property filter functions on their own: every frontmatter and every  *)
(* list of filters of the sets below                                        *)

MaxFilters == 2    \* longest list of filters

\* a key no frontmatter of the model holds
KeyStatus == <<"s">>

FilterKeys == {KeyAccess, KeyStatus, KeyConstructor}

Operators == {"exists", "not-exists", "equals", "not-equals", "contains"}

FilterValues == { <<>>, <<"p">>, <<"P", "u">> }

PropertyFilters ==
    [propertyKey : FilterKeys, operator : Operators, value : FilterValues]

PropertyValues ==
    { Null, Scalar(<<>>), Scalar(ValuePublic), Scalar(ValueLocal),
      Array(<<>>), Array(<<Scalar(ToLower(ValuePublic))>>),
      Array(<<Scalar(ValueLocal), Scalar(ToLower(ValuePublic))>>) }

\* null, {} and { k: value }
Frontmatters ==
    {NoFrontmatter, [kind |-> "map", keys |-> <<>>, values |-> <<>>]}
        \cup {[kind |-> "map", keys |-> <<KeyAccess>>, values |-> <<v>>] :
                  v \in PropertyValues}

FilterLists == UNION {[1..n -> PropertyFilters] : n \in 0..MaxFilters}

\* passesAllPropertyFilters(frontmatter, filters), and each filter alone
PassesAll ==
    /\ Idle
    /\ \E frontmatter \in Frontmatters, filters \in FilterLists :
           ret' = [op |-> "filter", frontmatter |-> frontmatter, filters |-> filters,
                   passes |-> [i \in 1..Len(filters) |->
                                  passesPropertyFilter(frontmatter, filters[i])],
                   passesAll |-> passesAllPropertyFilters(frontmatter, filters)]
    /\ UNCHANGED <<recentFiles, maxRecent, linkGraph, activeFile, rule>>

FilterNext ==
    \/ PassesAll
    \/ Return

\* the filter functions read no state: one initial state is enough
FilterInit == Init /\ activeFile = NoFile

FilterSpec == FilterInit /\ [][FilterNext]_vars

----------------------------------------------------------------------------
(* Properties *)

IsSearch == ret.op = "search"

IsLinks == ret.op = "links"

Results == ret.results

ResultFiles == {Results[i].file : i \in 1..Len(Results)}

EmptyQuery == IsEmptyQuery(ret.query)

Excluded(d) == isPathExcluded(PathOf(d), rule.excludedPaths)

Passes(d) == passesFilters(d, rule.propertyFilters)

Matches(d) == ScoreOf(d, ret.query, rule) > 0

CurrentOutside == activeFile # NoFile /\ (Excluded(activeFile) \/ ~Passes(activeFile))

\* C1: no document returned by search has a path excluded by the rule
C1_NoExcludedResult ==
    IsSearch => \A d \in ResultFiles : ~Excluded(d)

\* C2: the list returned by search never contains the current document
C2_CurrentNeverReturned ==
    (IsSearch /\ activeFile # NoFile) => activeFile \notin ResultFiles

\* C3: non-empty query, current document outside the filters: every result
\* is NON_FILTERED with priority 1000
C3_AllNonFiltered ==
    (IsSearch /\ ~EmptyQuery /\ CurrentOutside) =>
        \A i \in 1..Len(Results) :
            Results[i].group = "non-filtered" /\ Results[i].priority = PriorityNonFiltered

Min(x, y) == IF x < y THEN x ELSE y

FirstN(s, n) == [i \in 1..Min(n, Len(s)) |-> s[i]]

Occurrences(s, x) == Cardinality({i \in 1..Len(s) : s[i] = x})

Links == getCategorizedLinks(linkGraph, activeFile)

GroupSet(g) ==
    CASE g = "recentFiles" -> Range(recentFiles)
      [] g = "outgoingLinks" -> Range(Links.outgoing)
      [] g = "backlinks" -> Range(Links.backlinks)
      [] g = "twoHopLinks" -> Range(Links.twoHop)

GroupLabel(g) ==
    CASE g = "recentFiles" -> "recent"
      [] g = "outgoingLinks" -> "outgoing"
      [] g = "backlinks" -> "backlink"
      [] g = "twoHopLinks" -> "two-hop"

\* the positions, in the fixed order, of the enabled groups that contain d
Hits(d) == {i \in 1..Len(Groups) : rule[Groups[i]].enabled /\ d \in GroupSet(Groups[i])}

FirstHit(d) == CHOOSE i \in Hits(d) : \A j \in Hits(d) : i <= j

\* C4: a categorized document gets the first enabled group, in the order
\* Recent, Outgoing, Backlink, TwoHop, whose set contains it, with that
\* group's configured priority, and Other with 999 when there is none
C4_FirstEnabledGroupWins ==
    (IsSearch /\ activeFile # NoFile) =>
        \A i \in 1..Len(Results) :
            (Results[i].group # "non-filtered" /\ Results[i].priority # PriorityFiltered) =>
                IF Hits(Results[i].file) = {}
                THEN Results[i].group = "other" /\ Results[i].priority = PriorityOther
                ELSE LET g == Groups[FirstHit(Results[i].file)]
                     IN  /\ Results[i].group = GroupLabel(g)
                         /\ Results[i].priority = rule[g].priority

\* a backlink result that is also an outgoing link: the disabled Outgoing
\* group was passed over
C4_Witness ==
    /\ IsSearch
    /\ activeFile # NoFile
    /\ \E i \in 1..Len(Results) :
          /\ Results[i].group = "backlink"
          /\ Results[i].file \in Range(Links.outgoing)

\* C5: the recency cache holds no duplicate and at most maxRecent entries;
\* with capacity 0 it is empty
C5_CacheInvariant ==
    /\ NoDup(recentFiles)
    /\ Len(recentFiles) <= maxRecent
    /\ (maxRecent = 0 => recentFiles = <<>>)

\* a full cache below the default capacity whose newest entry is the open file
C5_Witness ==
    /\ maxRecent > 0
    /\ maxRecent < DefaultMaxRecent
    /\ Len(recentFiles) = maxRecent
    /\ activeFile = recentFiles[1]

\* C6: add(id) yields the first N entries of [id] followed by the cache
\* without id; with N >= 1 the id is at the front exactly once and adding it
\* again changes nothing
C6_AddMovesToFront ==
    [][\A f \in Docs :
          FileOpen(f) =>
              /\ recentFiles' =
                     FirstN(<<f>> \o SelectSeq(recentFiles, LAMBDA x : x # f), maxRecent)
              /\ (maxRecent >= 1 =>
                     /\ recentFiles'[1] = f
                     /\ Occurrences(recentFiles', f) = 1
                     /\ addRecentFile(recentFiles', maxRecent, f) = recentFiles')]_vars

\* the open file moved to the front of a full cache of two
C6_Witness ==
    /\ maxRecent = 2
    /\ Len(recentFiles) = 2
    /\ activeFile = recentFiles[1]

\* C7: the two-hop result contains neither the target nor a backlink of the
\* target, for getTwoHopLinksFromGraph and for LinkAnalyzer.getTwoHopLinks
C7_TwoHopExcludesBacklinks ==
    IsLinks =>
        /\ ret.target \notin Range(ret.twoHopFromGraph)
        /\ Range(ret.twoHopFromGraph) \cap Range(ret.backlinksFromGraph) = {}
        /\ ret.target \notin Range(ret.twoHop)
        /\ Range(ret.twoHop) \cap Range(ret.backlinks) = {}

NonFilteredAt(i) == Results[i].group = "non-filtered"

\* C10: non-empty query, current document not outside the filters, extended
\* results on: the primary results come first, then exactly the candidate
\* documents that fail the filters and match, NON_FILTERED, by descending score
C10_ExtendedAppended ==
    (IsSearch /\ ~EmptyQuery /\ ~CurrentOutside /\ rule.extendSearchResult) =>
        /\ {Results[i].file : i \in {j \in 1..Len(Results) : NonFilteredAt(j)}}
               = {d \in Docs : ~Excluded(d) /\ ~Passes(d) /\ Matches(d)}
        /\ {Results[i].file : i \in {j \in 1..Len(Results) : ~NonFilteredAt(j)}}
               = {d \in Docs : ~Excluded(d) /\ Passes(d) /\ Matches(d)} \ {activeFile}
        /\ \A i \in 1..Len(Results) :
              NonFilteredAt(i) => Results[i].priority = PriorityNonFiltered
        /\ \A i, j \in 1..Len(Results) :
              (i < j /\ NonFilteredAt(i)) =>
                  /\ NonFilteredAt(j)
                  /\ Results[i].file # Results[j].file
                  /\ ScoreOf(Results[i].file, ret.query, rule)
                         >= ScoreOf(Results[j].file, ret.query, rule)

\* a primary result followed by two extended results of different scores
C10_Witness ==
    /\ IsSearch /\ ~EmptyQuery /\ ~CurrentOutside /\ rule.extendSearchResult
    /\ activeFile # NoFile
    /\ \E i, j, k \in 1..Len(Results) :
          /\ i < j /\ j < k
          /\ ~NonFilteredAt(i) /\ NonFilteredAt(j) /\ NonFilteredAt(k)
          /\ ScoreOf(Results[j].file, ret.query, rule)
                 > ScoreOf(Results[k].file, ret.query, rule)

ScoreAt(i) == ScoreOf(Results[i].file, ret.query, rule)

\* C11: non-empty query: two results of the same priority appear by
\* descending text-match score
C11_TiesByScore ==
    (IsSearch /\ ~EmptyQuery) =>
        \A i, j \in 1..Len(Results) :
            (i < j /\ Results[i].priority = Results[j].priority) =>
                ScoreAt(i) >= ScoreAt(j)

\* C12: empty query: the results are in ascending priority and, among equal
\* priorities, in alphabetical order of basename, with or without a current
\* document
C12_EmptyQuerySorted ==
    (IsSearch /\ EmptyQuery) =>
        \A i, j \in 1..Len(Results) :
            i < j =>
                /\ Results[i].priority <= Results[j].priority
                /\ (Results[i].priority = Results[j].priority =>
                       localeCompare(Basename(Results[i].file),
                                     Basename(Results[j].file)) <= 0)

LinksOut(d) == Range(linkGraph[d]) \cap Docs

LinksIn(d) == {x \in Docs : d \in Range(linkGraph[x])}

\* the documents one or two links away from d, by the three patterns
Related(d) ==
    LinksOut(d) \cup LinksIn(d)
        \cup UNION {LinksOut(y) : y \in LinksOut(d)}
        \cup UNION {LinksOut(y) : y \in LinksIn(d)}
        \cup UNION {LinksIn(y) : y \in LinksOut(d)}

\* C13: empty query, current document outside the filters: the returned
\* documents are the recent and related documents of the candidate pool
\* without the current document, each once; those failing the property
\* filters are kept unless filterRelatedFiles is set
C13_RelatedFiles ==
    (IsSearch /\ EmptyQuery /\ CurrentOutside) =>
        /\ ResultFiles =
               {d \in (Range(recentFiles) \cup Related(activeFile)) \ {activeFile} :
                   /\ ~Excluded(d)
                   /\ (rule.filterRelatedFiles => Passes(d))}
        /\ Cardinality(ResultFiles) = Len(Results)

\* a linked document that fails the property filters is returned
C13_Witness ==
    /\ IsSearch /\ EmptyQuery /\ CurrentOutside
    /\ ~rule.filterRelatedFiles
    /\ \E d \in ResultFiles : ~Passes(d) /\ d \in Related(activeFile)

Bypass == rule.recentFiles.enabled /\ rule.recentFiles.ignoreFilters

C15_NothingWithoutExtend ==
    (IsSearch /\ ~EmptyQuery /\ CurrentOutside /\ ~rule.extendSearchResult) =>
        Results = <<>>

\* the candidate documents that pass the filters and match the query
FilteredMatches == {d \in Docs : ~Excluded(d) /\ Passes(d) /\ Matches(d)}

----------------------------------------------------------------------------
(* utils/suggestionUtils.ts *)

PriorityNonFilteredMatch == 1000

\* what a fuzzy search function returns: null, or a match with its score
NoMatch == [matched |-> FALSE, score |-> 0]

FuzzyMatch(score) == [matched |-> TRUE, score |-> score]

\* an entry of fileToResultMap; Missing stands for a path without entry
Missing == [present |-> FALSE, group |-> "other", priority |-> PriorityOther]

Entry(group, priority) == [present |-> TRUE, group |-> group, priority |-> priority]

SuggestionMatch(file, score, group, priority) ==
    [file |-> file, score |-> score, group |-> group, priority |-> priority]

\* the comparator of sortSuggestionsByPriorityAndScore
ComparePriorityAndScore(a, b) ==
    IF a.priority # b.priority THEN a.priority - b.priority
    ELSE b.score - a.score

\* the comparator that looks at the score alone
CompareScore(a, b) == b.score - a.score

\* Array.prototype.sort is stable: insertion behind every element that does
\* not come after the new one
RECURSIVE InsertSuggestion(_, _, _)
InsertSuggestion(sorted, x, byPriority) ==
    IF sorted = <<>> THEN <<x>>
    ELSE IF (IF byPriority THEN ComparePriorityAndScore(Head(sorted), x)
                           ELSE CompareScore(Head(sorted), x)) <= 0
         THEN <<Head(sorted)>> \o InsertSuggestion(Tail(sorted), x, byPriority)
         ELSE <<x>> \o sorted

RECURSIVE SortSuggestions(_, _, _)
SortSuggestions(acc, suggestions, byPriority) ==
    IF suggestions = <<>> THEN acc
    ELSE SortSuggestions(InsertSuggestion(acc, Head(suggestions), byPriority),
                         Tail(suggestions), byPriority)

\* the suggestions as given, the sort left out
sortSuggestionsUnsorted(suggestions) == suggestions

sortSuggestionsByPriorityAndScore(suggestions) ==
    SortSuggestions(<<>>, suggestions, TRUE)

RECURSIVE filesToSuggestionMatches(_, _, _)
filesToSuggestionMatches(files, fileToResultMap, fuzzySearchFn) ==
    IF files = <<>> THEN <<>>
    ELSE LET file == Head(files)
             matchResult == fuzzySearchFn[file]
             searchResult == fileToResultMap[file]
             rest == filesToSuggestionMatches(Tail(files), fileToResultMap,
                                              fuzzySearchFn)
         IN  IF matchResult.matched
             THEN <<SuggestionMatch(file, matchResult.score,
                                    IF searchResult.present THEN searchResult.group
                                    ELSE "other",
                                    IF searchResult.present THEN searchResult.priority
                                    ELSE PriorityOther)>> \o rest
             ELSE rest

RECURSIVE NonFilteredLoop(_, _, _)
NonFilteredLoop(allFiles, excludePaths, fuzzySearchFn) ==
    IF allFiles = <<>> THEN <<>>
    ELSE LET file == Head(allFiles)
             rest == NonFilteredLoop(Tail(allFiles), excludePaths, fuzzySearchFn)
         IN  IF file \in excludePaths THEN rest
             ELSE IF fuzzySearchFn[file].matched
             THEN <<SuggestionMatch(file, fuzzySearchFn[file].score, "non-filtered",
                                    PriorityNonFilteredMatch)>> \o rest
             ELSE rest

findNonFilteredMatches(allFiles, excludePaths, fuzzySearchFn) ==
    SortSuggestions(<<>>, NonFilteredLoop(allFiles, excludePaths, fuzzySearchFn), FALSE)

combineSuggestions(filteredMatches, nonFilteredMatches, maxSuggestions) ==
    Slice0(filteredMatches \o nonFilteredMatches, maxSuggestions)

getSortedSuggestionsWithNonFiltered(filteredFiles, allFiles, fileToResultMap, fuzzySearchFn, showNonFiltered, maxSuggestions) ==
    LET filteredMatches ==
            filesToSuggestionMatches(filteredFiles, fileToResultMap, fuzzySearchFn)
        sortedFiltered == sortSuggestionsByPriorityAndScore(filteredMatches)
    IN  IF ~showNonFiltered \/ Len(sortedFiltered) = 0
        THEN Slice0(sortedFiltered, maxSuggestions)
        ELSE combineSuggestions(
                 sortedFiltered,
                 findNonFilteredMatches(allFiles, Range(filteredFiles), fuzzySearchFn),
                 maxSuggestions)

----------------------------------------------------------------------------
(* The suggestion functions on their own: every list of filtered files,     *)
(* fuzzy search function, result map and limit of the sets below            *)

MaxFiltered == 3      \* longest list of filtered files

MaxSuggestions == 3   \* largest limit on the number of suggestions

MaxScore == 1         \* best score of a fuzzy match

FilteredLists ==
    {files \in UNION {[1..n -> Docs] : n \in 0..MaxFiltered} : NoDup(files)}

FuzzySearchFns == [Docs -> {NoMatch} \cup {FuzzyMatch(score) : score \in 0..MaxScore}]

\* no entry; recent and outgoing entries; entries for three of the files
ResultMaps ==
    { [d \in Docs |-> Missing],
      [d \in Docs |-> IF d \in {"d1", "d3"} THEN Entry("recent", 1)
                                              ELSE Entry("outgoing", 2)],
      [d \in Docs |-> IF d = "d3" THEN Missing
                      ELSE IF d = "d1" THEN Entry("backlink", 3)
                      ELSE Entry("recent", 1)] }

\* getSortedSuggestionsWithNonFiltered over the files of the vault
Suggest ==
    /\ Idle
    /\ \E filteredFiles \in FilteredLists, fuzzySearchFn \in FuzzySearchFns,
          fileToResultMap \in ResultMaps, showNonFiltered \in BOOLEAN,
          maxSuggestions \in 0..MaxSuggestions :
           ret' = [op |-> "suggest",
                   filteredFiles |-> filteredFiles,
                   fuzzySearchFn |-> fuzzySearchFn,
                   fileToResultMap |-> fileToResultMap,
                   showNonFiltered |-> showNonFiltered,
                   maxSuggestions |-> maxSuggestions,
                   suggestions |->
                       getSortedSuggestionsWithNonFiltered(
                           filteredFiles, MarkdownFiles, fileToResultMap,
                           fuzzySearchFn, showNonFiltered, maxSuggestions)]
    /\ UNCHANGED <<recentFiles, maxRecent, linkGraph, activeFile, rule>>

SuggestNext ==
    \/ Suggest
    \/ Return

SuggestSpec == FilterInit /\ [][SuggestNext]_vars

----------------------------------------------------------------------------
(* main.ts: loadSettings and the migration of the rules saved by older      *)
(* versions.  A field an old rule may lack is "absent", "true" or "false".  *)

MaxPriority == 3   \* largest priority of a group of a saved rule

Optional == {"absent", "true", "false"}

\* the priorities of recentFiles, backlinks and twoHopLinks: no two alike
SavedPriorities == {priorities \in [1..3 -> 1..MaxPriority] : NoDup(priorities)}

\* a rule as an older version saved it: three groups with distinct
\* priorities, outgoingLinks only when the version knew it
SavedRules ==
    {[hasExcludedPaths |-> hasExcludedPaths,
      showNonFiltered |-> showNonFiltered,
      fallbackToAll |-> fallbackToAll,
      filterRelatedFiles |-> filterRelatedFiles,
      hasOutgoingLinks |-> hasOutgoingLinks,
      ignoreFilters |-> ignoreFilters,
      recentPriority |-> priorities[1],
      backlinksPriority |-> priorities[2],
      twoHopPriority |-> priorities[3]] :
        hasExcludedPaths \in BOOLEAN, showNonFiltered \in Optional,
        fallbackToAll \in Optional, filterRelatedFiles \in Optional,
        hasOutgoingLinks \in BOOLEAN, ignoreFilters \in Optional,
        priorities \in SavedPriorities}

\* the rule after the loop body of loadSettings; an outgoingLinks group the
\* saved rule already has keeps the priority after the three others
MigratedRule(saved) ==
    [excludedPaths |-> <<>>,
     propertyFilters |-> <<>>,
     searchInTags |-> TRUE,
     searchInProperties |-> FALSE,
     recentFiles |->
         [enabled |-> TRUE, priority |-> saved.recentPriority,
          ignoreFilters |-> IF saved.ignoreFilters = "absent" THEN TRUE
                            ELSE saved.ignoreFilters = "true"],
     outgoingLinks |->
         [enabled |-> TRUE,
          priority |-> IF saved.hasOutgoingLinks THEN MaxPriority + 1 ELSE 2],
     backlinks |->
         [enabled |-> TRUE,
          priority |-> IF ~saved.hasOutgoingLinks /\ saved.backlinksPriority >= 2
                       THEN saved.backlinksPriority + 1
                       ELSE saved.backlinksPriority],
     twoHopLinks |->
         [enabled |-> TRUE,
          priority |-> IF ~saved.hasOutgoingLinks /\ saved.twoHopPriority >= 2
                       THEN saved.twoHopPriority + 1
                       ELSE saved.twoHopPriority],
     extendSearchResult |->
         IF saved.showNonFiltered # "absent" \/ saved.fallbackToAll # "absent"
         THEN saved.showNonFiltered = "true" \/ saved.fallbackToAll = "true"
         ELSE TRUE,
     filterRelatedFiles |-> saved.filterRelatedFiles = "true"]

needsSave(saved) ==
    \/ ~saved.hasExcludedPaths
    \/ saved.showNonFiltered # "absent" \/ saved.fallbackToAll # "absent"
    \/ saved.filterRelatedFiles = "absent"
    \/ ~saved.hasOutgoingLinks
    \/ saved.ignoreFilters = "absent"

\* onload -> loadSettings: the tracker does not exist yet, so saveSettings
\* leaves the recency cache alone
LoadSettings ==
    /\ Idle
    /\ \E saved \in SavedRules :
           /\ rule' = MigratedRule(saved)
           /\ ret' = [op |-> "load", saved |-> saved, needsSave |-> needsSave(saved)]
    /\ UNCHANGED <<recentFiles, maxRecent, linkGraph, activeFile>>

LoadNext ==
    \/ LoadSettings
    \/ Return

LoadSpec == FilterInit /\ [][LoadNext]_vars

----------------------------------------------------------------------------
(* The path filter functions on their own: every list of files and every    *)
(* list of excluded folders of the sets below                               *)

MaxFiles == 2      \* longest list of files given to filterByExcludedPaths

MaxFolders == 2    \* longest list of excluded folders

\* folders as the user may write them, with and without the closing "/"
FolderNames ==
    { <<>>, <<"t">>, <<"t", "/">>, <<"t", "t">>, <<"n">>, <<"n", "/", "b">>, <<"a">> }

FileLists == UNION {[1..n -> Docs] : n \in 0..MaxFiles}

FolderLists == UNION {[1..n -> FolderNames] : n \in 0..MaxFolders}

\* filterByExcludedPaths(files, excludedFolders), and isPathExcluded of each file
FilterPaths ==
    /\ Idle
    /\ \E files \in FileLists, excludedFolders \in FolderLists :
           ret' = [op |-> "paths", files |-> files, excludedFolders |-> excludedFolders,
                   excluded |-> [i \in 1..Len(files) |->
                                    isPathExcluded(PathOf(files[i]), excludedFolders)],
                   kept |-> filterByExcludedPaths(files, excludedFolders)]
    /\ UNCHANGED <<recentFiles, maxRecent, linkGraph, activeFile, rule>>

PathNext ==
    \/ FilterPaths
    \/ Return

PathSpec == FilterInit /\ [][PathNext]_vars

IsFilter == ret.op = "filter"

\* the value the frontmatter itself holds under the key, Undefined when the
\* frontmatter is null or has no such key
OwnValue(frontmatter, key) ==
    IF frontmatter.kind = "map"
       /\ \E i \in 1..Len(frontmatter.keys) : frontmatter.keys[i] = key
    THEN frontmatter.values[CHOOSE i \in 1..Len(frontmatter.keys) :
                                frontmatter.keys[i] = key]
    ELSE Undefined

\* case-insensitive equality of two strings, letter by letter
SameIgnoringCase(x, y) ==
    /\ Len(x) = Len(y)
    /\ \A i \in 1..Len(x) : LowerChar(x[i]) = LowerChar(y[i])

\* C17: key absent from the metadata: only not-exists passes; key present
\* with a scalar value: not-equals passes iff the strings differ, case ignored
C17_AbsentKeyFails ==
    IsFilter =>
        \A i \in 1..Len(ret.filters) :
            LET f == ret.filters[i]
                v == OwnValue(ret.frontmatter, f.propertyKey)
            IN  /\ (v = Undefined => (ret.passes[i] <=> f.operator = "not-exists"))
                /\ ((v.kind = "scalar" /\ f.operator = "not-equals") =>
                       (ret.passes[i] <=> ~SameIgnoringCase(v.str, f.value)))

\* C17 for the keys Object.prototype does not define
C17_AbsentOwnKeyFails ==
    IsFilter =>
        \A i \in 1..Len(ret.filters) :
            LET f == ret.filters[i]
                v == OwnValue(ret.frontmatter, f.propertyKey)
            IN  f.propertyKey # KeyConstructor =>
                    /\ (v = Undefined => (ret.passes[i] <=> f.operator = "not-exists"))
                    /\ ((v.kind = "scalar" /\ f.operator = "not-equals") =>
                           (ret.passes[i] <=> ~SameIgnoringCase(v.str, f.value)))

\* the scalar predicate of an operator, on one element of an array
ElementSatisfies(element, operator, value) ==
    CASE operator = "equals" -> SameIgnoringCase(element.str, value)
      [] operator = "not-equals" -> ~SameIgnoringCase(element.str, value)
      [] operator = "contains" -> Includes(ToLower(element.str), ToLower(value))
      [] OTHER -> FALSE

AnyElement(array, operator, value) ==
    \E n \in 1..Len(array.items) : ElementSatisfies(array.items[n], operator, value)

\* C18: on an array value, equals, not-equals and contains pass iff at least
\* one element satisfies the operator's scalar predicate
C18_AnyElementSatisfies ==
    IsFilter =>
        \A i \in 1..Len(ret.filters) :
            LET f == ret.filters[i]
                v == OwnValue(ret.frontmatter, f.propertyKey)
            IN  (v.kind = "array" /\ f.operator \in {"equals", "not-equals", "contains"})
                    => (ret.passes[i] <=> AnyElement(v, f.operator, f.value))

\* C18, amended: on an array value, equals and contains pass iff at least one
\* element satisfies the predicate; not-equals passes iff no element equals
\* the filter value
C18_ArrayOperators ==
    IsFilter =>
        \A i \in 1..Len(ret.filters) :
            LET f == ret.filters[i]
                v == OwnValue(ret.frontmatter, f.propertyKey)
            IN  v.kind = "array" =>
                    /\ (f.operator \in {"equals", "contains"} =>
                           (ret.passes[i] <=> AnyElement(v, f.operator, f.value)))
                    /\ (f.operator = "not-equals" =>
                           (ret.passes[i] <=> ~AnyElement(v, "equals", f.value)))

\* a two-element array of which the second element alone equals the filter
\* value: equals passes, not-equals does not
C18_Witness ==
    /\ IsFilter
    /\ Len(ret.filters) = 2
    /\ OwnValue(ret.frontmatter, KeyAccess) =
           Array(<<Scalar(ValueLocal), Scalar(ToLower(ValuePublic))>>)
    /\ ret.filters[1] = [propertyKey |-> KeyAccess, operator |-> "equals",
                         value |-> ValuePublic]
    /\ ret.filters[2] = [propertyKey |-> KeyAccess, operator |-> "not-equals",
                         value |-> ValuePublic]
    /\ ret.passes = <<TRUE, FALSE>>

Reverse(seq) == [i \in 1..Len(seq) |-> seq[Len(seq) + 1 - i]]

\* C19: passesAll is the conjunction of the single filters: true for an
\* empty list, for null metadata true iff every operator is not-exists, and
\* the same for the list in the opposite order
C19_PassesAllConjunction ==
    IsFilter =>
        /\ (Len(ret.filters) = 0 => ret.passesAll)
        /\ (ret.passesAll <=> \A i \in 1..Len(ret.filters) : ret.passes[i])
        /\ (ret.frontmatter = NoFrontmatter =>
               (ret.passesAll <=> \A i \in 1..Len(ret.filters) :
                                     ret.filters[i].operator = "not-exists"))
        /\ passesAllPropertyFilters(ret.frontmatter, Reverse(ret.filters))
               = ret.passesAll

\* null metadata, a not-exists filter that passes followed by an exists
\* filter that fails
C19_Witness ==
    /\ IsFilter
    /\ ret.frontmatter = NoFrontmatter
    /\ Len(ret.filters) = 2
    /\ ret.filters[1].operator = "not-exists"
    /\ ret.filters[2].operator = "exists"
    /\ ret.passes = <<TRUE, FALSE>>
    /\ ~ret.passesAll

\* the scalar value the frontmatter holds under the key of a contains filter
ContainsOnScalar(i) ==
    /\ ret.filters[i].operator = "contains"
    /\ OwnValue(ret.frontmatter, ret.filters[i].propertyKey).kind = "scalar"

\* C20: contains with an empty filter value passes on every non-empty
\* property value and fails on the empty string
C20_EmptyNotInEmpty ==
    IsFilter =>
        \A i \in 1..Len(ret.filters) :
            (ContainsOnScalar(i) /\ ret.filters[i].value = <<>>) =>
                (ret.passes[i] <=>
                    OwnValue(ret.frontmatter, ret.filters[i].propertyKey).str # <<>>)

\* C20, amended: contains with an empty filter value passes on every string
\* property value, the empty string included; the empty string contains no
\* other filter value
C20_EmptyInEveryString ==
    IsFilter =>
        \A i \in 1..Len(ret.filters) :
            ContainsOnScalar(i) =>
                /\ (ret.filters[i].value = <<>> => ret.passes[i])
                /\ ((OwnValue(ret.frontmatter, ret.filters[i].propertyKey).str = <<>>
                        /\ ret.filters[i].value # <<>>) => ~ret.passes[i])

\* an empty-string property value under contains, once with the empty
\* filter value and once with a filter value of one letter
C20_Witness ==
    /\ IsFilter
    /\ OwnValue(ret.frontmatter, KeyAccess) = Scalar(<<>>)
    /\ Len(ret.filters) = 2
    /\ ret.filters[1] = [propertyKey |-> KeyAccess, operator |-> "contains",
                         value |-> <<>>]
    /\ ret.filters[2] = [propertyKey |-> KeyAccess, operator |-> "contains",
                         value |-> <<"p">>]
    /\ ret.passes = <<TRUE, FALSE>>

IsPaths == ret.op = "paths"

\* the folder with "/" added unless it ends with one
WithSlash(folder) ==
    IF Len(folder) > 0 /\ folder[Len(folder)] = "/" THEN folder ELSE folder \o <<"/">>

\* path begins with prefix, letter by letter
BeginsWith(path, prefix) ==
    /\ Len(prefix) <= Len(path)
    /\ \A k \in 1..Len(prefix) : path[k] = prefix[k]

\* the files of the list that are not excluded, in the order of the list
RECURSIVE KeptOf(_, _)
KeptOf(files, excluded) ==
    IF Len(files) = 0 THEN <<>>
    ELSE IF excluded[1] THEN KeptOf(Tail(files), Tail(excluded))
    ELSE <<files[1]>> \o KeptOf(Tail(files), Tail(excluded))

\* C21: a path is excluded iff it begins with some folder normalized to end
\* with "/", so the match ends at a segment boundary; no folders exclude
\* nothing; filterByExcludedPaths keeps exactly the other files, in order
C21_ExcludedAtSegmentBoundary ==
    IsPaths =>
        /\ \A i \in 1..Len(ret.files) :
               /\ ret.excluded[i] <=>
                      \E j \in 1..Len(ret.excludedFolders) :
                          BeginsWith(PathOf(ret.files[i]), WithSlash(ret.excludedFolders[j]))
               /\ ret.excluded[i] =>
                      \E n \in 1..Len(PathOf(ret.files[i])) :
                          /\ PathOf(ret.files[i])[n] = "/"
                          /\ \E j \in 1..Len(ret.excludedFolders) :
                                 WithSlash(ret.excludedFolders[j])
                                     = SubSeq(PathOf(ret.files[i]), 1, n)
               /\ Len(ret.excludedFolders) = 0 => ~ret.excluded[i]
        /\ ret.kept = KeptOf(ret.files, ret.excluded)

\* folders "t" and "n/b" over the files tt/a, t/c, n/ba: only t/c is inside
\* one of the folders; the two others share letters with them, not a segment
C21_Witness ==
    /\ IsPaths
    /\ ret.files = <<"d4", "d3">>
    /\ ret.excludedFolders = << <<"t">>, <<"n", "/", "b">> >>
    /\ ret.excluded = <<FALSE, TRUE>>
    /\ ret.kept = <<"d4">>

\* C22: setMaxRecent(n) keeps exactly the first min(length, n) entries, in
\* order, and changes nothing when n is not below the length; every add
\* after it leaves at most n entries
C22_ResizeKeepsNewest ==
    [][/\ \A n \in 0..MaxCap :
              SetMaxRecent(n) =>
                  /\ recentFiles' = SubSeq(recentFiles, 1, Min(Len(recentFiles), n))
                  /\ (n >= Len(recentFiles) => recentFiles' = recentFiles)
       /\ \A f \in Docs :
              FileOpen(f) => Len(recentFiles') <= maxRecent]_vars

\* the capacity was set to one and the cache holds the open file alone
C22_Witness ==
    /\ maxRecent = 1
    /\ activeFile # NoFile
    /\ recentFiles = <<activeFile>>

\* C23: non-empty query, current document inside the filters, extend off:
\* every result passes the property filters and matches the query, none is
\* tagged non-filtered, and no recent document failing the filters is returned
C23_OnlyFilteredMatches ==
    (IsSearch /\ ~EmptyQuery /\ activeFile # NoFile /\ ~CurrentOutside
        /\ ~rule.extendSearchResult) =>
        /\ \A i \in 1..Len(Results) :
               /\ Passes(Results[i].file)
               /\ Matches(Results[i].file)
               /\ Results[i].group # "non-filtered"
        /\ \A d \in Range(recentFiles) : ~Passes(d) => d \notin ResultFiles

\* the recent-files bypass is on, a recent document matches the query and
\* fails the property filters, and the search returns something else
C23_Witness ==
    /\ IsSearch /\ ~EmptyQuery /\ activeFile # NoFile /\ ~CurrentOutside
    /\ ~rule.extendSearchResult
    /\ Bypass
    /\ \E d \in Range(recentFiles) : ~Excluded(d) /\ ~Passes(d) /\ Matches(d)
    /\ Results # <<>>

ExtendFlipped == [rule EXCEPT !.extendSearchResult = ~@]

IsSuggest == ret.op = "suggest"

Suggestions == ret.suggestions

\* the filtered files and the other files of the vault that match the query
FilteredHits == {d \in Range(ret.filteredFiles) : ret.fuzzySearchFn[d].matched}

NonFilteredHits ==
    {d \in Docs \ Range(ret.filteredFiles) : ret.fuzzySearchFn[d].matched}

NonFilteredShown == ret.showNonFiltered /\ FilteredHits # {}

PriorityIn(d) ==
    IF ret.fileToResultMap[d].present THEN ret.fileToResultMap[d].priority
    ELSE PriorityOther

\* d comes no later than e among the filtered suggestions
FilteredBefore(d, e) ==
    \/ PriorityIn(d) < PriorityIn(e)
    \/ PriorityIn(d) = PriorityIn(e)
           /\ ret.fuzzySearchFn[d].score >= ret.fuzzySearchFn[e].score

\* the number of filtered suggestions that survive the limit
FilteredShown == Min(ret.maxSuggestions, Cardinality(FilteredHits))

\* C26: the suggestions are the filtered matches by ascending priority then
\* descending score, then, iff showNonFiltered is on and a filtered file
\* matches, the non-filtered matches with priority 1000 by descending score,
\* all cut to the first maxSuggestions
C26_SortedSuggestions ==
    IsSuggest =>
        /\ Len(Suggestions) =
               Min(ret.maxSuggestions,
                   Cardinality(FilteredHits)
                       + (IF NonFilteredShown THEN Cardinality(NonFilteredHits) ELSE 0))
        /\ \A i, j \in 1..Len(Suggestions) : i # j => Suggestions[i].file # Suggestions[j].file
        /\ \A i \in 1..Len(Suggestions) :
               LET x == Suggestions[i]
               IN  /\ x.score = ret.fuzzySearchFn[x.file].score
                   /\ IF i <= FilteredShown
                      THEN /\ x.file \in FilteredHits
                           /\ x.priority = PriorityIn(x.file)
                           /\ \A j \in (i + 1)..FilteredShown :
                                  FilteredBefore(x.file, Suggestions[j].file)
                           /\ \A d \in FilteredHits :
                                  (\A k \in 1..FilteredShown : Suggestions[k].file # d)
                                      => FilteredBefore(x.file, d)
                      ELSE /\ x.file \in NonFilteredHits
                           /\ x.group = "non-filtered"
                           /\ x.priority = PriorityNonFilteredMatch
                           /\ \A j \in (i + 1)..Len(Suggestions) :
                                  x.score >= Suggestions[j].score
                           /\ \A d \in NonFilteredHits :
                                  (\A k \in 1..Len(Suggestions) : Suggestions[k].file # d)
                                      => x.score >= ret.fuzzySearchFn[d].score

\* two filtered matches given in the opposite order to their priorities,
\* followed by a non-filtered match, with a non-filtered match cut by the limit
C26_Witness ==
    /\ IsSuggest
    /\ ret.showNonFiltered
    /\ Len(ret.filteredFiles) = 2
    /\ Len(Suggestions) = 3
    /\ Suggestions[1].file = ret.filteredFiles[2]
    /\ Suggestions[2].file = ret.filteredFiles[1]
    /\ Suggestions[1].priority < Suggestions[2].priority
    /\ Suggestions[3].group = "non-filtered"
    /\ Cardinality(NonFilteredHits) = 2

\* the three discovery patterns from document d
OutgoingOfOutgoing(d) == UNION {LinksOut(y) : y \in LinksOut(d)}

OutgoingOfBacklinks(d) == UNION {LinksOut(y) : y \in LinksIn(d)}

BacklinksOfOutgoing(d) == UNION {LinksIn(y) : y \in LinksOut(d)}

C28_NoDuplicateResult ==
    IsSearch => \A i, j \in 1..Len(Results) : i # j => Results[i].file # Results[j].file

\* the link-priority search returns a linked document that passes the
\* property filters, once, and a non-filtered document after it
C28_Witness ==
    /\ IsSearch /\ ~EmptyQuery /\ CurrentOutside
    /\ \E i, j \in 1..Len(Results) :
          /\ Results[i].group \notin {"other", "non-filtered"}
          /\ Passes(Results[i].file)
          /\ Results[j].group = "non-filtered"

\* C29: in the list of the link-priority search (non-empty query, current
\* document outside the filters) the priority numbers never decrease
C29_PrioritiesNeverDecrease ==
    (IsSearch /\ ~EmptyQuery /\ CurrentOutside) =>
        \A i, j \in 1..Len(Results) :
            i < j => Results[i].priority <= Results[j].priority

IsLoad == ret.op = "load"

\* C30: after the migration that adds the outgoingLinks group to a saved
\* rule with three distinct priorities, the four priorities are distinct
C30_MigratedPrioritiesDistinct ==
    (IsLoad /\ ~ret.saved.hasOutgoingLinks) =>
        \A i, j \in 1..Len(Groups) :
            i # j => rule[Groups[i]].priority # rule[Groups[j]].priority

====
